---- MODULE Spec2Model ----
(***************************************************************************)
(* Model of the cricket betting reward calculators.                        *)
(*                                                                         *)
(*   post-reward-calculator.py : distance metrics, calculate_combined_score*)
(*                               and calculate_rewards                     *)
(*   pre-reward-calculator.py  : fetch_player_stats, calculate_multiplier  *)
(*                               and lambda_handler                        *)
(*                                                                         *)
(* Python floats are modelled by exact rationals <<n, d>> in lowest terms  *)
(* with d > 0.  Inputs are drawn from values on which math.sqrt and the    *)
(* p-th root are rational, so every operation of the code is computed      *)
(* exactly; binary rounding of floats is not modelled.                     *)
(***************************************************************************)
EXTENDS Integers, Sequences, FiniteSets, TLC

(***************************************************************************)
(* Exact rational arithmetic                                               *)
(***************************************************************************)
Abs(i) == IF i < 0 THEN -i ELSE i

RECURSIVE GCD(_, _)
GCD(a, b) == IF b = 0 THEN a ELSE GCD(b, a % b)

\* the rational n/d in lowest terms with a positive denominator
Rat(n, d) ==
    LET s == IF d < 0 THEN -1 ELSE 1
        g == GCD(Abs(n), Abs(d))
    IN  <<(s * n) \div g, (s * d) \div g>>

Num(x) == x[1]
Den(x) == x[2]
Zero == <<0, 1>>
One == <<1, 1>>
Int2R(i) == <<i, 1>>

RNeg(x) == <<-Num(x), Den(x)>>
RAbs(x) == <<Abs(Num(x)), Den(x)>>

RAdd(x, y) ==
    LET g == GCD(Den(x), Den(y))
    IN  Rat(Num(x) * (Den(y) \div g) + Num(y) * (Den(x) \div g),
            (Den(x) \div g) * Den(y))

RSub(x, y) == RAdd(x, RNeg(y))

\* cross-cancelling product: the factors are reduced before they are multiplied
RMul(x, y) ==
    LET g1 == GCD(Abs(Num(x)), Den(y))
        g2 == GCD(Abs(Num(y)), Den(x))
    IN  <<(Num(x) \div g1) * (Num(y) \div g2), (Den(x) \div g2) * (Den(y) \div g1)>>

\* x / y for y # 0
RDiv(x, y) ==
    RMul(x, IF Num(y) < 0 THEN <<-Den(y), -Num(y)>> ELSE <<Den(y), Num(y)>>)

RLess(x, y) == Num(RSub(x, y)) < 0
RLeq(x, y) == Num(RSub(x, y)) <= 0
RMin(x, y) == IF RLess(y, x) THEN y ELSE x
RMax(x, y) == IF RLess(x, y) THEN y ELSE x

RECURSIVE RPow(_, _)
RPow(x, k) == IF k = 0 THEN One ELSE RMul(x, RPow(x, k - 1))

RECURSIVE IPow(_, _)
IPow(b, k) == IF k = 0 THEN 1 ELSE b * IPow(b, k - 1)

\* largest r in lo..hi with r^k <= n, by bisection (lo^k <= n is maintained)
RECURSIVE RootSearch(_, _, _, _)
RootSearch(n, k, lo, hi) ==
    IF lo >= hi THEN lo
    ELSE LET mid == (lo + hi + 1) \div 2
         IN  IF IPow(mid, k) <= n THEN RootSearch(n, k, mid, hi)
             ELSE RootSearch(n, k, lo, mid - 1)

\* the largest root whose k-th power fits a 32-bit integer
RootCap(k) == IF k = 1 THEN 2147483647 ELSE IF k = 2 THEN 46340 ELSE 1290

IRoot(n, k) ==
    IF k = 1 \/ n <= 1 THEN n
    ELSE RootSearch(n, k, 1, IF n < RootCap(k) THEN n ELSE RootCap(k))

IsPower(n, k) == IPow(IRoot(n, k), k) = n

\* x has a rational k-th root
HasRoot(x, k) == Num(x) >= 0 /\ IsPower(Num(x), k) /\ IsPower(Den(x), k)

\* the k-th root of x, defined where it is rational
RRoot(x, k) ==
    <<CHOOSE r \in {IRoot(Num(x), k)} : IPow(r, k) = Num(x),
      CHOOSE r \in {IRoot(Den(x), k)} : IPow(r, k) = Den(x)>>

RECURSIVE RSum(_, _)
\* sum of f[k] over the keys k of S
RSum(f, S) ==
    IF S = {} THEN Zero
    ELSE LET k == CHOOSE e \in S : TRUE
         IN  RAdd(f[k], RSum(f, S \ {k}))

(***************************************************************************)
(* post-reward-calculator.py: distance metrics and the combined score      *)
(***************************************************************************)
\* dict.get(key, 0)
Get(d, key) == IF key \in DOMAIN d THEN d[key] ELSE Zero

calculate_euclidean_distance(prediction, actual) ==
    LET squared_diff ==
            RSum([key \in DOMAIN prediction |->
                      RPow(RSub(prediction[key], Get(actual, key)), 2)],
                 DOMAIN prediction)
    IN  RRoot(squared_diff, 2)

calculate_manhattan_distance(prediction, actual) ==
    RSum([key \in DOMAIN prediction |-> RAbs(RSub(prediction[key], Get(actual, key)))],
         DOMAIN prediction)

calculate_minkowski_distance(prediction, actual, p) ==
    RRoot(RSum([key \in DOMAIN prediction |->
                    RPow(RAbs(RSub(prediction[key], Get(actual, key))), p)],
               DOMAIN prediction),
          p)

epsilon == <<1, 1000000000>>

\* dot_product / (magnitude_pred * magnitude_actual + epsilon) over the union of the keys
RawCosine(prediction, actual) ==
    LET all_keys == (DOMAIN prediction) \cup (DOMAIN actual)
        dot_product ==
            RSum([key \in all_keys |-> RMul(Get(prediction, key), Get(actual, key))], all_keys)
        magnitude_pred ==
            RRoot(RSum([key \in all_keys |-> RPow(Get(prediction, key), 2)], all_keys), 2)
        magnitude_actual ==
            RRoot(RSum([key \in all_keys |-> RPow(Get(actual, key), 2)], all_keys), 2)
    IN  RDiv(dot_product, RAdd(RMul(magnitude_pred, magnitude_actual), epsilon))

calculate_cosine_similarity(prediction, actual) ==
    IF prediction = actual THEN One ELSE RawCosine(prediction, actual)

\* calculate_combined_score that weighs the cosine similarity instead of 1 - cosine
calculate_combined_score_similarity(prediction, actual, weights, p) ==
    LET euclidean == calculate_euclidean_distance(prediction, actual)
        manhattan == calculate_manhattan_distance(prediction, actual)
        minkowski == calculate_minkowski_distance(prediction, actual, p)
        cosine == calculate_cosine_similarity(prediction, actual)
        combined_score ==
            RAdd(RAdd(RAdd(RMul(euclidean, weights["Euclidean"]),
                           RMul(manhattan, weights["Manhattan"])),
                      RMul(minkowski, weights["Minkowski"])),
                 RMul(cosine, weights["Cosine"]))
    IN  RDiv(One, RAdd(One, combined_score))

calculate_combined_score(prediction, actual, weights, p) ==
    LET euclidean == calculate_euclidean_distance(prediction, actual)
        manhattan == calculate_manhattan_distance(prediction, actual)
        minkowski == calculate_minkowski_distance(prediction, actual, p)
        cosine == calculate_cosine_similarity(prediction, actual)
        cosine_distance == RSub(One, cosine)
        combined_score ==
            RAdd(RAdd(RAdd(RMul(euclidean, weights["Euclidean"]),
                           RMul(manhattan, weights["Manhattan"])),
                      RMul(minkowski, weights["Minkowski"])),
                 RMul(cosine_distance, weights["Cosine"]))
    IN  RDiv(One, RAdd(One, combined_score))

\* the default of body.get("weights", ...) in the reward handler
DefaultWeights ==
    [Euclidean |-> <<2, 5>>, Manhattan |-> <<3, 10>>, Minkowski |-> <<1, 5>>, Cosine |-> <<1, 10>>]

Metrics == {"Euclidean", "Manhattan", "Minkowski", "Cosine"}

\* every partial mapping from the keys K to the values V
Mappings(K, V) == UNION {[S -> V] : S \in SUBSET K}

\* the roots taken by the four metrics on (prediction, actual, p) are rational
Exact(prediction, actual, p) ==
    LET all_keys == (DOMAIN prediction) \cup (DOMAIN actual)
    IN  /\ HasRoot(RSum([key \in DOMAIN prediction |->
                             RPow(RSub(prediction[key], Get(actual, key)), 2)],
                        DOMAIN prediction), 2)
        /\ HasRoot(RSum([key \in DOMAIN prediction |->
                             RPow(RAbs(RSub(prediction[key], Get(actual, key))), p)],
                        DOMAIN prediction), p)
        /\ HasRoot(RSum([key \in all_keys |-> RPow(Get(prediction, key), 2)], all_keys), 2)
        /\ HasRoot(RSum([key \in all_keys |-> RPow(Get(actual, key), 2)], all_keys), 2)

(***************************************************************************)
(* State                                                                   *)
(***************************************************************************)
VARIABLES
    pc,            \* position of the run
    pred,          \* combined score: the prediction StatVector
    act,           \* combined score: the actual StatVector
    weights,       \* WeightSet passed to the scorer / the allocator
    p,             \* Minkowski exponent
    metrics,       \* combined score: the four raw metrics and the score
    predictions,   \* rewards: user -> player -> StatVector
    actual,        \* rewards: player -> StatVector
    investments,   \* rewards: user -> stake
    user_scores,   \* rewards: user -> mean score
    rewards,       \* rewards: user -> reward
    event,         \* estimate: the invocation event
    outcome,       \* estimate: what the HTTP request of the statistics fetch did
    fetches,       \* estimate: number of statistics fetches issued
    player_stats,  \* estimate: result of fetch_player_stats, << >> for None
    multiplier,    \* estimate: the handler's unrounded multiplier
    response       \* estimate: the handler's return value

vars == <<pc, pred, act, weights, p, metrics, predictions, actual, investments,
          user_scores, rewards, event, outcome, fetches, player_stats, multiplier,
          response>>

scoreVars == <<pred, act, metrics>>
rewardVars == <<predictions, actual, investments, user_scores, rewards>>
estimateVars == <<event, outcome, fetches, player_stats, multiplier, response>>

None == "None"

(***************************************************************************)
(* Specification of the combined scorer: inputs, then one call             *)
(***************************************************************************)
\* stat values in thousandths, so that epsilon is visible next to the magnitudes
ScoreValues == {Zero, <<3, 1000>>, <<4, 1000>>}
ScoreKeys == {"runs", "balls"}
ScoreVectors == Mappings(ScoreKeys, ScoreValues)
\* each weight is 0 or the handler's default for its metric
ScoreWeights == {w \in [Metrics -> {Zero} \cup {DefaultWeights[m] : m \in Metrics}] :
                    \A m \in Metrics : w[m] \in {Zero, DefaultWeights[m]}}
PValues == {1, 2, 3}

InitScore ==
    /\ pc = "score"
    /\ pred \in ScoreVectors
    /\ act \in ScoreVectors
    /\ weights \in ScoreWeights
    /\ p \in PValues
    /\ Exact(pred, act, p)
    /\ metrics = None
    /\ predictions = None /\ actual = None /\ investments = None
    /\ user_scores = None /\ rewards = None
    /\ event = None /\ outcome = None /\ fetches = 0
    /\ player_stats = None /\ multiplier = None /\ response = None

CombinedScore ==
    /\ pc = "score"
    /\ metrics' = [euclidean |-> calculate_euclidean_distance(pred, act),
                   manhattan |-> calculate_manhattan_distance(pred, act),
                   minkowski |-> calculate_minkowski_distance(pred, act, p),
                   cosine |-> calculate_cosine_similarity(pred, act),
                   score |-> calculate_combined_score(pred, act, weights, p)]
    /\ pc' = "scored"
    /\ UNCHANGED <<pred, act, weights, p, rewardVars, estimateVars>>

NextScore == CombinedScore

SpecScore == InitScore /\ [][NextScore]_vars

(***************************************************************************)
(* post-reward-calculator.py: calculate_rewards                            *)
(***************************************************************************)
\* UserScore with count incremented for every predicted player, scored or not
UserScoreCountAll(user_prediction, actuals, w, pw) ==
    LET scored == {player \in DOMAIN user_prediction : player \in DOMAIN actuals}
        total_score ==
            RSum([player \in scored |->
                      calculate_combined_score(user_prediction[player], actuals[player], w, pw)],
                 scored)
        count == Cardinality(DOMAIN user_prediction)
    IN  IF count > 0 THEN RDiv(total_score, Int2R(count)) ELSE Zero

\* the loop over user_prediction.items(): mean score over the players found in actual
UserScore(user_prediction, actuals, w, pw) ==
    LET scored == {player \in DOMAIN user_prediction : player \in DOMAIN actuals}
        total_score ==
            RSum([player \in scored |->
                      calculate_combined_score(user_prediction[player], actuals[player], w, pw)],
                 scored)
        count == Cardinality(scored)
    IN  IF count > 0 THEN RDiv(total_score, Int2R(count)) ELSE Zero

UserScores(preds, actuals, w, pw) ==
    [user \in DOMAIN preds |-> UserScore(preds[user], actuals, w, pw)]

\* sum(investments.values())
TotalBudget(invest) == RSum(invest, DOMAIN invest)

\* WeightedScores that forgets the stake
WeightedScoresNoStake(preds, scores, invest) ==
    [user \in DOMAIN preds |-> scores[user]]

WeightedScores(preds, scores, invest) ==
    [user \in DOMAIN preds |-> RMul(scores[user], Get(invest, user))]

\* RewardWeights whose fallback forgets to divide by len(predictions)
RewardWeightsNoSplit(preds, weighted_scores) ==
    LET total_weighted_score == RSum(weighted_scores, DOMAIN weighted_scores)
    IN  IF total_weighted_score = Zero
        THEN [user \in DOMAIN preds |-> One]
        ELSE [user \in DOMAIN preds |-> RDiv(weighted_scores[user], total_weighted_score)]

RewardWeights(preds, weighted_scores) ==
    LET total_weighted_score == RSum(weighted_scores, DOMAIN weighted_scores)
    IN  IF total_weighted_score = Zero
        THEN [user \in DOMAIN preds |-> RDiv(One, Int2R(Cardinality(DOMAIN preds)))]
        ELSE [user \in DOMAIN preds |-> RDiv(weighted_scores[user], total_weighted_score)]

\* calculate_rewards that gives every investor an entry, predicting or not
calculate_rewards_all_users(preds, actuals, invest, w, pw) ==
    LET scores == UserScores(preds, actuals, w, pw)
        total_budget == TotalBudget(invest)
        weighted_scores == WeightedScores(preds, scores, invest)
        reward_weights == RewardWeights(preds, weighted_scores)
    IN  [user \in (DOMAIN preds) \cup (DOMAIN invest) |->
            IF user \in DOMAIN preds THEN RMul(reward_weights[user], total_budget) ELSE Zero]

\* calculate_rewards whose budget is the stakes of the predicting users only
calculate_rewards_own_budget(preds, actuals, invest, w, pw) ==
    LET scores == UserScores(preds, actuals, w, pw)
        total_budget == RSum([user \in DOMAIN preds |-> Get(invest, user)], DOMAIN preds)
        weighted_scores == WeightedScores(preds, scores, invest)
        reward_weights == RewardWeights(preds, weighted_scores)
    IN  [user \in DOMAIN preds |-> RMul(reward_weights[user], total_budget)]

calculate_rewards(preds, actuals, invest, w, pw) ==
    LET scores == UserScores(preds, actuals, w, pw)
        total_budget == TotalBudget(invest)
        weighted_scores == WeightedScores(preds, scores, invest)
        reward_weights == RewardWeights(preds, weighted_scores)
    IN  [user \in DOMAIN preds |-> RMul(reward_weights[user], total_budget)]

(***************************************************************************)
(* Specification of the budget allocator: inputs, then one call            *)
(***************************************************************************)
Predictors == {"alice", "bob"}
Investors == Predictors \cup {"carol"}
Players == {"p1", "p2"}
RewardVectors == [{"runs"} -> {Zero, One}]
\* what the players did: one run each
ActualVectors == {[runs |-> One]}
MaxStake == 1
Stakes == {Int2R(i) : i \in 0..MaxStake}
RewardWeightSets ==
    {DefaultWeights,
     [Euclidean |-> One, Manhattan |-> One, Minkowski |-> One, Cosine |-> Zero]}

InitRewards ==
    /\ pc = "rewards"
    /\ predictions \in Mappings(Predictors, Mappings(Players, RewardVectors))
    /\ actual \in Mappings(Players, ActualVectors)
    /\ investments \in Mappings(Investors, Stakes)
    /\ weights \in RewardWeightSets
    /\ p = 3
    /\ user_scores = None /\ rewards = None
    /\ pred = None /\ act = None /\ metrics = None
    /\ event = None /\ outcome = None /\ fetches = 0
    /\ player_stats = None /\ multiplier = None /\ response = None

CalculateRewards ==
    /\ pc = "rewards"
    /\ user_scores' = UserScores(predictions, actual, weights, p)
    /\ rewards' = calculate_rewards(predictions, actual, investments, weights, p)
    /\ pc' = "rewarded"
    /\ UNCHANGED <<weights, p, predictions, actual, investments, scoreVars, estimateVars>>

NextRewards == CalculateRewards

SpecRewards == InitRewards /\ [][NextRewards]_vars

(***************************************************************************)
(* Properties of the budget allocator (SpecRewards)                        *)
(***************************************************************************)
Rewarded == pc = "rewarded"
SumRewards == RSum(rewards, DOMAIN rewards)
SumInvestments == RSum(investments, DOMAIN investments)
Stake(user) == IF user \in DOMAIN investments THEN investments[user] ELSE Zero
\* sum over the predicting users of user score x stake
SumWeighted ==
    RSum([user \in DOMAIN predictions |-> RMul(user_scores[user], Stake(user))],
         DOMAIN predictions)

\* C1 (as stated): for every predictions and investments, the rewards sum to the
\* sum of all values in investments.
C1_RewardsSumToInvestments == Rewarded => SumRewards = SumInvestments

\* C1 (amended): whenever predictions has at least one user, the rewards sum to
\* the sum of all values in investments; with no predicting user the result is empty.
C1_RewardsSumWhenPredicted ==
    Rewarded =>
        /\ DOMAIN predictions # {} => SumRewards = SumInvestments
        /\ DOMAIN predictions = {} => rewards = << >>

C1_Witness ==
    /\ Rewarded
    /\ DOMAIN predictions = {"alice", "bob"}
    /\ DOMAIN investments = {"alice", "carol"}
    /\ investments["carol"] = One
    /\ SumRewards = SumInvestments
    /\ SumInvestments # Zero

\* C2 (as stated): the rewards' keys are exactly the users of predictions and the
\* distributed budget is the sum of the stakes of the predicting users only.
C2_OnlyPredictorsStakes ==
    Rewarded =>
        /\ DOMAIN rewards = DOMAIN predictions
        /\ SumRewards = RSum([user \in DOMAIN predictions |-> Stake(user)], DOMAIN predictions)

\* C2 (amended): the rewards' keys are exactly the users of predictions, so an
\* investor who did not predict gets no entry, but that investor's stake is part
\* of the budget: with at least one predicting user the distributed budget is the
\* sum of all stakes in investments.
C2_KeysArePredictorsBudgetIsAll ==
    Rewarded =>
        /\ DOMAIN rewards = DOMAIN predictions
        /\ \A user \in DOMAIN investments \ DOMAIN predictions : user \notin DOMAIN rewards
        /\ DOMAIN predictions # {} =>
               SumRewards = RAdd(RSum([user \in DOMAIN predictions |-> Stake(user)],
                                      DOMAIN predictions),
                                 RSum(investments, DOMAIN investments \ DOMAIN predictions))

C2_Witness ==
    /\ Rewarded
    /\ DOMAIN predictions = {"alice"}
    /\ "carol" \in DOMAIN investments /\ investments["carol"] = One
    /\ Stake("alice") = One
    /\ rewards["alice"] = SumInvestments
    /\ rewards["alice"] # Stake("alice")

\* C3: when the sum over predicting users of score x stake is 0, each of the N
\* predicting users receives totalBudget / N.
C3_EqualSplit ==
    (Rewarded /\ SumWeighted = Zero) =>
        \A user \in DOMAIN predictions :
            rewards[user] = RDiv(SumInvestments, Int2R(Cardinality(DOMAIN predictions)))

C3_Witness ==
    /\ Rewarded
    /\ DOMAIN predictions = {"alice", "bob"}
    /\ SumWeighted = Zero
    /\ Stake("alice") = One /\ Stake("bob") = Zero
    /\ user_scores["bob"] # Zero
    /\ rewards["alice"] = <<1, 2>> /\ rewards["bob"] = <<1, 2>>

\* C4: when the sum of weighted scores is not 0, each predicting user receives
\* totalBudget x (score x stake) / sum of weighted scores, with stake 0 for a
\* user missing from investments; a user with stake 0 receives 0.
C4_Proportional ==
    (Rewarded /\ SumWeighted # Zero) =>
        \A user \in DOMAIN predictions :
            /\ rewards[user] =
                   RDiv(RMul(SumInvestments, RMul(user_scores[user], Stake(user))), SumWeighted)
            /\ Stake(user) = Zero => rewards[user] = Zero

C4_Witness ==
    /\ Rewarded
    /\ DOMAIN predictions = {"alice", "bob"}
    /\ SumWeighted # Zero
    /\ "bob" \notin DOMAIN investments
    /\ user_scores["bob"] = One
    /\ rewards["bob"] = Zero
    /\ rewards["alice"] = SumInvestments

Scored == pc = "scored"
ScoreInRange == Num(metrics.score) > 0 /\ Num(metrics.score) <= Den(metrics.score)
\* the prediction matches the actual on the named metric
Matches(m) ==
    CASE m = "Euclidean" -> metrics.euclidean = Zero
      [] m = "Manhattan" -> metrics.manhattan = Zero
      [] m = "Minkowski" -> metrics.minkowski = Zero
      [] m = "Cosine" -> metrics.cosine = One

\* C7 (as stated): for non-negative weights and p > 0 the combined score lies in
\* (0, 1] and is exactly 1 if and only if all four metrics match at once.
C7_OneIffAllFourMatch ==
    Scored => /\ ScoreInRange
              /\ metrics.score = One <=> \A m \in Metrics : Matches(m)

\* C7 (amended): for non-negative weights and p > 0 the combined score lies in
\* (0, 1]; it is exactly 1 if and only if every metric whose weight is not 0
\* matches, hence if and only if all four match when all four weights are positive.
C7_OneIffWeightedMetricsMatch ==
    Scored => /\ ScoreInRange
              /\ metrics.score = One <=> \A m \in Metrics : weights[m] # Zero => Matches(m)
              /\ (\A m \in Metrics : weights[m] # Zero) =>
                     (metrics.score = One <=> \A m \in Metrics : Matches(m))

C7_Witness ==
    /\ Scored
    /\ metrics.score = One
    /\ weights["Cosine"] = Zero /\ weights["Euclidean"] # Zero
    /\ metrics.euclidean = Zero
    /\ metrics.cosine # One
    /\ DOMAIN act # DOMAIN pred

(***************************************************************************)
(* pre-reward-calculator.py: statistics fetch and multiplier               *)
(***************************************************************************)
\* JSON null / Python None for optional values
Null == << >>

\* fetch_player_stats that does not look at the response status
fetch_player_stats_any_status(o) ==
    IF o.kind = "exception" THEN Null
    ELSE IF o.parses THEN <<o.data>> ELSE Null

\* the value returned for an outcome o of http.request: None unless the status is
\* 200 and the body parses into the seven fields
fetch_player_stats(o) ==
    IF o.kind = "exception" THEN Null
    ELSE IF o.status = 200
         THEN IF o.parses THEN <<o.data>> ELSE Null
         ELSE Null

\* calculate_cosine_similarity of pre-reward-calculator.py
pre_calculate_cosine_similarity(prediction, actual_stats) ==
    IF DOMAIN actual_stats = {} THEN <<7, 10>>
    ELSE LET all_keys == (DOMAIN prediction) \cup (DOMAIN actual_stats)
             dot_product ==
                 RSum([key \in all_keys |->
                           RMul(Get(prediction, key), Get(actual_stats, key))], all_keys)
             magnitude_pred ==
                 RRoot(RSum([key \in all_keys |-> RPow(Get(prediction, key), 2)], all_keys), 2)
             magnitude_actual ==
                 RRoot(RSum([key \in all_keys |-> RPow(Get(actual_stats, key), 2)], all_keys), 2)
             raw_similarity ==
                 RDiv(dot_product, RAdd(RMul(magnitude_pred, magnitude_actual), epsilon))
         IN  RAdd(<<1, 2>>, RMul(raw_similarity, <<1, 2>>))

\* max(1, matches)
Max1(i) == IF i < 1 THEN 1 ELSE i

\* the per-match vector built by calculate_multiplier
ActualStats(stats) ==
    LET matches == Max1(stats.matches)
    IN  [runs |-> Rat(stats.runs, matches), balls |-> Rat(stats.balls, matches),
         fours |-> Rat(stats.fours, matches), sixes |-> Rat(stats.sixes, matches)]

Consistency(stats) ==
    RMin(One, RMax(<<1, 2>>,
                   RDiv(RAdd(RDiv(stats.average, Int2R(50)), RDiv(stats.strikeRate, Int2R(150))),
                        Int2R(2))))

calculate_multiplier(prediction, stats_opt) ==
    IF stats_opt = Null THEN <<3, 2>>
    ELSE LET similarity == pre_calculate_cosine_similarity(prediction, ActualStats(stats_opt[1]))
             base_multiplier == RAdd(One, RMul(similarity, Consistency(stats_opt[1])))
         IN  RMin(Int2R(3), RMax(One, base_multiplier))

\* round(x, 2) for x >= 0: the nearest multiple of 0.01, ties to the even one
Round2(x) ==
    LET whole == Num(x) \div Den(x)
        rest == Num(x) % Den(x)
        cents == (rest * 100) \div Den(x)
        left == (rest * 100) % Den(x)
        up == IF 2 * left > Den(x) \/ (2 * left = Den(x) /\ cents % 2 = 1) THEN 1 ELSE 0
    IN  Rat(whole * 100 + cents + up, 100)

\* estimated_return computed from the multiplier already rounded for display
EstimatedReturnOfRounded(bet_amount, mult) == Round2(RMul(bet_amount, Round2(mult)))

EstimatedReturn(bet_amount, mult) == Round2(RMul(bet_amount, mult))

required_fields == <<"player_id", "bet_amount", "prediction">>

\* required_fields without the prediction
MissingFieldsNoPrediction(body) ==
    SelectSeq(<<"player_id", "bet_amount">>, LAMBDA field : field \notin DOMAIN body)

\* [field for field in required_fields if field not in body]
MissingFields(body) == SelectSeq(required_fields, LAMBDA field : field \notin DOMAIN body)

\* the 'stats_used' object of the success response
StatsUsed(stats_opt) ==
    IF stats_opt = Null
    THEN [runs_per_match |-> Null, balls_per_match |-> Null, average |-> Null, strikeRate |-> Null]
    ELSE [runs_per_match |-> Rat(stats_opt[1].runs, stats_opt[1].matches),
          balls_per_match |-> Rat(stats_opt[1].balls, stats_opt[1].matches),
          average |-> stats_opt[1].average,
          strikeRate |-> stats_opt[1].strikeRate]

(***************************************************************************)
(* Specification of the multiplier-estimation handler                      *)
(***************************************************************************)
EstimateValues == {Zero, <<3, 1000>>, <<4, 1000>>}
EstimateVectors ==
    {v \in Mappings({"runs", "balls"}, EstimateValues) :
        HasRoot(RSum([key \in DOMAIN v |-> RPow(v[key], 2)], DOMAIN v), 2)}
MaxBet == 2
\* bets in hundreds
Bets == {Int2R(100 * i) : i \in 0..MaxBet}
FullBodies ==
    {[player_id |-> "p1", bet_amount |-> b, prediction |-> v] : b \in Bets, v \in EstimateVectors}
Bodies == {[field \in S |-> full[field]] : full \in FullBodies, S \in SUBSET {"player_id", "bet_amount", "prediction"}}

\* an event is the body itself, or an envelope whose 'body' string parses to the
\* body, or an envelope whose 'body' string is not JSON
Events ==
    {[has_body |-> FALSE, valid_json |-> TRUE, body |-> b] : b \in Bodies}
    \cup {[has_body |-> TRUE, valid_json |-> TRUE, body |-> b] : b \in Bodies}
    \cup {[has_body |-> TRUE, valid_json |-> FALSE, body |-> << >>]}

\* career statistics: a player without matches has no runs and no balls
PlayerStats ==
    {s \in [runs : {0, 3, 4}, balls : {0, 3, 4}, fours : {0}, sixes : {0},
            average : {Zero, Int2R(33), Int2R(100)}, strikeRate : {Int2R(99), Int2R(300)},
            matches : {0, 1000}] :
        /\ s.matches = 0 => (s.runs = 0 /\ s.balls = 0)
        /\ IsPower(s.runs * s.runs + s.balls * s.balls, 2)}

SomeStats ==
    [runs |-> 3, balls |-> 4, fours |-> 0, sixes |-> 0, average |-> Int2R(33),
     strikeRate |-> Int2R(99), matches |-> 1000]

\* what the GET can do: raise (timeout, transport), answer with another status,
\* answer 200 with a body that does not parse, answer 200 with statistics
Outcomes ==
    {[kind |-> "exception", status |-> 0, parses |-> FALSE, data |-> SomeStats]}
    \cup {[kind |-> "response", status |-> st, parses |-> TRUE, data |-> SomeStats] :
              st \in {404, 500}}
    \cup {[kind |-> "response", status |-> 200, parses |-> FALSE, data |-> SomeStats]}
    \cup {[kind |-> "response", status |-> 200, parses |-> TRUE, data |-> s] : s \in PlayerStats}

InitEstimate ==
    /\ pc = "estimate"
    /\ event \in Events
    /\ outcome = None
    /\ fetches = 0
    /\ player_stats = None
    /\ multiplier = None
    /\ response = None
    /\ pred = None /\ act = None /\ metrics = None /\ weights = None /\ p = None
    /\ predictions = None /\ actual = None /\ investments = None
    /\ user_scores = None /\ rewards = None

\* json.loads(event['body']) raises JSONDecodeError
HandlerInvalidJSON ==
    /\ pc = "estimate"
    /\ event.has_body /\ ~event.valid_json
    /\ response' = [statusCode |-> 400, body |-> [error |-> "Invalid JSON format"]]
    /\ pc' = "responded"
    /\ UNCHANGED <<event, outcome, fetches, player_stats, multiplier,
                   weights, p, scoreVars, rewardVars>>

\* the body parsed, some required field is not in it
HandlerMissingFields ==
    /\ pc = "estimate"
    /\ event.valid_json
    /\ MissingFields(event.body) # << >>
    /\ response' = [statusCode |-> 400,
                    body |-> [error |-> "Missing required fields",
                              missing_fields |-> MissingFields(event.body)]]
    /\ pc' = "responded"
    /\ UNCHANGED <<event, outcome, fetches, player_stats, multiplier,
                   weights, p, scoreVars, rewardVars>>

\* the body is complete: fetch_player_stats issues its request
HandlerFetch ==
    /\ pc = "estimate"
    /\ event.valid_json
    /\ MissingFields(event.body) = << >>
    /\ fetches' = fetches + 1
    /\ pc' = "fetching"
    /\ UNCHANGED <<event, outcome, player_stats, multiplier, response,
                   weights, p, scoreVars, rewardVars>>

\* the request ends one way or another and fetch_player_stats returns
FetchReturns ==
    /\ pc = "fetching"
    /\ \E o \in Outcomes :
          /\ outcome' = o
          /\ player_stats' = fetch_player_stats(o)
    /\ pc' = "fetched"
    /\ UNCHANGED <<event, fetches, multiplier, response, weights, p, scoreVars, rewardVars>>

\* the rest of the try block, and the handler for any other exception
HandlerRespond ==
    /\ pc = "fetched"
    /\ multiplier' = calculate_multiplier(event.body.prediction, player_stats)
    /\ response' =
          IF player_stats # Null /\ player_stats[1].matches = 0
          THEN [statusCode |-> 500, body |-> [error |-> "division by zero"]]
          ELSE [statusCode |-> 200,
                body |-> [player_id |-> event.body.player_id,
                          bet_amount |-> event.body.bet_amount,
                          estimated_return |->
                              EstimatedReturn(event.body.bet_amount, multiplier'),
                          multiplier |-> Round2(multiplier'),
                          stats_used |-> StatsUsed(player_stats)]]
    /\ pc' = "responded"
    /\ UNCHANGED <<event, outcome, fetches, player_stats, weights, p, scoreVars, rewardVars>>

NextEstimate ==
    \/ HandlerInvalidJSON
    \/ HandlerMissingFields
    \/ HandlerFetch
    \/ FetchReturns
    \/ HandlerRespond

SpecEstimate == InitEstimate /\ [][NextEstimate]_vars

(***************************************************************************)
(* Properties of the multiplier-estimation handler (SpecEstimate)          *)
(***************************************************************************)
Responded == pc = "responded"
\* the handler got as far as the statistics fetch
Fetched == fetches = 1
\* the fetch resolves to absent: transport failure or timeout, non-200, parse failure
FetchFailed == outcome.kind = "exception" \/ outcome.status # 200 \/ ~outcome.parses
\* e is x rounded to two decimals
IsRound2(e, x) == 100 % Den(e) = 0 /\ RLeq(RAbs(RSub(e, x)), <<1, 200>>)
InOneToThree(x) == RLeq(One, x) /\ RLeq(x, Int2R(3))

\* C5: when the statistics fetch resolves to absent for a request with all
\* required fields, the response is 200 with multiplier exactly 1.5,
\* estimated_return = round(bet_amount * 1.5, 2) and all four stats_used null.
C5_AbsentStatsGiveDefault ==
    (Responded /\ Fetched /\ FetchFailed) =>
        /\ response.statusCode = 200
        /\ multiplier = <<3, 2>>
        /\ response.body.multiplier = <<3, 2>>
        /\ IsRound2(response.body.estimated_return, RMul(event.body.bet_amount, <<3, 2>>))
        /\ \A f \in {"runs_per_match", "balls_per_match", "average", "strikeRate"} :
               response.body.stats_used[f] = Null

C5_Witness ==
    /\ Responded /\ Fetched
    /\ outcome.kind = "response" /\ outcome.status = 404
    /\ event.body.bet_amount = Int2R(100)
    /\ event.body.prediction = [runs |-> <<3, 1000>>]
    /\ response.statusCode = 200
    /\ response.body.estimated_return = Int2R(150)

\* C6: the multiplier returned by calculate_multiplier lies in [1.0, 3.0], and the
\* handler's estimated_return is bet_amount * multiplier rounded to two decimals,
\* computed from the unrounded multiplier.
C6_MultiplierClampedReturnRounded ==
    (Responded /\ Fetched) =>
        /\ InOneToThree(multiplier)
        /\ response.statusCode = 200 =>
               IsRound2(response.body.estimated_return,
                        RMul(event.body.bet_amount, multiplier))

C6_Witness ==
    /\ Responded /\ Fetched
    /\ player_stats # Null
    /\ response.statusCode = 200
    /\ response.body.multiplier # multiplier
    /\ ~IsRound2(response.body.estimated_return,
                 RMul(event.body.bet_amount, response.body.multiplier))

\* C8: a request whose parsed body lacks a required field gets 400 "Missing
\* required fields" with missing_fields listing exactly the absent fields, before
\* any statistics fetch is issued; a body string that is not JSON gets 400
\* "Invalid JSON format".
C8_ValidationErrors ==
    Responded =>
        /\ (event.valid_json /\ DOMAIN event.body # {"player_id", "bet_amount", "prediction"}) =>
               /\ response.statusCode = 400
               /\ response.body.error = "Missing required fields"
               /\ {response.body.missing_fields[i] : i \in DOMAIN response.body.missing_fields}
                      = {"player_id", "bet_amount", "prediction"} \ DOMAIN event.body
               /\ Len(response.body.missing_fields)
                      = Cardinality({"player_id", "bet_amount", "prediction"} \ DOMAIN event.body)
               /\ fetches = 0
        /\ (event.has_body /\ ~event.valid_json) =>
               /\ response.statusCode = 400
               /\ response.body.error = "Invalid JSON format"

C8_Witness ==
    /\ Responded
    /\ event.has_body /\ event.valid_json
    /\ DOMAIN event.body = {"player_id"}
    /\ response.statusCode = 400
    /\ response.body.missing_fields = <<"bet_amount", "prediction">>
    /\ fetches = 0

\* C9: a request with all required fields whose fetched statistics have
\* matches = 0 ends with status 200, a multiplier in [1.0, 3.0] and the
\* stats_used fields filled in.
C9_ZeroMatchesSucceeds ==
    (Responded /\ Fetched /\ player_stats # Null /\ player_stats[1].matches = 0) =>
        /\ response.statusCode = 200
        /\ InOneToThree(multiplier)
        /\ \A f \in {"runs_per_match", "balls_per_match", "average", "strikeRate"} :
               response.body.stats_used[f] # Null
====
